---- MODULE Spec2Model ----
(***************************************************************************)
(* Training progress tracker of SLMGen                                     *)
(* (libslmgen/core/training_tracker.py, libslmgen/app/routers/training.py).*)
(*                                                                         *)
(* The registry is the dict TrainingTracker._sessions; every tracker       *)
(* method runs inside `with self._session_lock`, so one method call is one *)
(* atomic action.  The wall clock (datetime.now) is the variable now, in   *)
(* hours, so that the two-hour TTL is the number 2; the clock readings of  *)
(* one critical section fall on the same value of now.  Event and session  *)
(* fields that the tracker only stores and copies (learning_rate,          *)
(* grad_norm, job_id, model_id, total_epochs, ...) are left out.           *)
(***************************************************************************)
EXTENDS Integers, Sequences, FiniteSets, TLC

VARIABLES
    now,        \* datetime.now(timezone.utc), in hours
    sessions,   \* TrainingTracker._sessions: session_id -> TrainingSession
    accepted,   \* history: per id, the add_event calls that returned True
                \* since the session object was constructed
    ret,        \* the call made by the last step and what it returned
    added,      \* how many add_event calls were made on top of a drawn log,
                \* or were started by the threads
    threads,    \* per thread: the call it is in, its position and locals
    locks,      \* who holds TrainingTracker._lock and ._session_lock
    instance,   \* TrainingTracker._instance, the attributes each allocated
                \* object has so far, and how many _sessions dicts were made
    feed,       \* the event_generator of one GET /stream subscription
    history     \* history: the order in which critical sections were entered

vars == <<now, sessions, accepted, ret, added, threads, locks, instance, feed,
          history>>

\* what the actions of the registry as a whole leave alone
others == <<added, threads, locks, instance, feed, history>>

----------------------------------------------------------------------------
(* Bounds of the model *)

\* the clock stops at MaxTime
MaxTime == 3
\* a session's log holds at most MaxEvents events
MaxEvents == 2

SessionIds == {"s1"}
TwoIds == {"s1", "s2"}
Steps == {0, 1}
Losses == {5}
Epochs == {0}
ErrorMessages == {"OOM error"}
TotalStepsValues == {2}
SinceSteps == {<<>>, <<0>>, <<1>>}

----------------------------------------------------------------------------
(* Optional[T]: None is the empty sequence, a value x is <<x>> *)

None == <<>>
Some(x) == <<x>>

PENDING == "pending"
RUNNING == "running"
COMPLETED == "completed"
FAILED == "failed"

TrainingStatus == {PENDING, RUNNING, COMPLETED, FAILED}

\* datetime.isoformat(): an injective rendering of a datetime as text
isoformat(t) == [iso |-> t]

\* TrainingEvent(step, loss, ...): timestamp defaults to the clock
TrainingEvent(step, loss, epoch, t) ==
    [step |-> step, loss |-> loss, epoch |-> epoch, timestamp |-> t]

\* TrainingEvent.to_dict
event_to_dict(e) ==
    [step |-> e.step, loss |-> e.loss, epoch |-> e.epoch,
     timestamp |-> isoformat(e.timestamp)]

\* TrainingSession(session_id, job_id, model_id, total_steps, total_epochs)
TrainingSession(session_id, total_steps, t) ==
    [session_id |-> session_id,
     total_steps |-> total_steps,
     created_at |-> t,
     started_at |-> None,
     completed_at |-> None,
     status |-> PENDING,
     events |-> <<>>,
     error_message |-> None,
     last_activity |-> t]

\* add_event that skips an event whose step is already in the log
session_add_event_dedup(s, event, t) ==
    IF \E i \in 1..Len(s.events) : s.events[i].step = event.step
    THEN [s EXCEPT !.last_activity = t]
    ELSE LET s1 == [s EXCEPT !.events = Append(@, event), !.last_activity = t]
         IN  IF s.status = PENDING
             THEN [s1 EXCEPT !.status = RUNNING,
                             !.started_at = Some(event.timestamp)]
             ELSE s1

\* add_event that sets started_at at every event
session_add_event_restamp(s, event, t) ==
    LET s1 == [s EXCEPT !.events = Append(@, event), !.last_activity = t,
                        !.started_at = Some(event.timestamp)]
    IN  IF s.status = PENDING THEN [s1 EXCEPT !.status = RUNNING] ELSE s1

\* add_event that makes every session that is not running run
session_add_event_resurrect(s, event, t) ==
    LET s1 == [s EXCEPT !.events = Append(@, event), !.last_activity = t]
    IN  IF s.status # RUNNING
        THEN [s1 EXCEPT !.status = RUNNING, !.started_at = Some(event.timestamp)]
        ELSE s1

\* TrainingSession.add_event
session_add_event(s, event, t) ==
    LET s1 == [s EXCEPT !.events = Append(@, event), !.last_activity = t]
    IN  IF s.status = PENDING
        THEN [s1 EXCEPT !.status = RUNNING, !.started_at = Some(event.timestamp)]
        ELSE s1

session_complete_clear(s, t) ==
    [s EXCEPT !.status = COMPLETED,
              !.completed_at = Some(t),
              !.last_activity = t,
              !.events = <<>>]

session_complete_unstamped(s, t) ==
    [s EXCEPT !.status = COMPLETED,
              !.last_activity = t]

session_complete_at_creation(s, t) ==
    [s EXCEPT !.status = COMPLETED,
              !.completed_at = Some(s.created_at),
              !.last_activity = t]

\* TrainingSession.complete
session_complete(s, t) ==
    [s EXCEPT !.status = COMPLETED,
              !.completed_at = Some(t),
              !.last_activity = t]

\* fail that leaves the time of the last activity alone
session_fail_untouched(s, error, t) ==
    [s EXCEPT !.status = FAILED,
              !.error_message = Some(error),
              !.completed_at = Some(t)]

\* TrainingSession.fail
session_fail(s, error, t) ==
    [s EXCEPT !.status = FAILED,
              !.error_message = Some(error),
              !.completed_at = Some(t),
              !.last_activity = t]

\* timedelta(hours=ttl_hours) with the default ttl_hours=2
TTL == 2

\* is_expired with >= in place of >
is_expired_at_ttl(s, t) == t >= s.last_activity + TTL

\* TrainingSession.is_expired
is_expired(s, t) == t > s.last_activity + TTL

\* TrainingSession.current_step
current_step(s) ==
    IF s.events = <<>> THEN 0 ELSE s.events[Len(s.events)].step

\* TrainingSession.current_epoch
current_epoch(s) ==
    IF s.events = <<>> THEN 0 ELSE s.events[Len(s.events)].epoch

\* TrainingSession.latest_loss
latest_loss(s) ==
    IF s.events = <<>> THEN None ELSE Some(s.events[Len(s.events)].loss)

\* A float that is a ratio of integers is kept as the exact fraction num/den
\* (den > 0); the rounding error of the float operations is left out.
Frac(n, d) == [num |-> n, den |-> d]
FracLeq(a, b) == a.num * b.den <= b.num * a.den
FracEq(a, b) == a.num * b.den = b.num * a.den

\* min(100.0, x)
min100(x) == IF FracLeq(Frac(100, 1), x) THEN Frac(100, 1) ELSE x

progress_percent_unclamped(s) ==
    IF s.total_steps = 0 THEN Frac(0, 1)
    ELSE Frac(current_step(s) * 100, s.total_steps)

\* TrainingSession.progress_percent
progress_percent(s) ==
    IF s.total_steps = 0 THEN Frac(0, 1)
    ELSE min100(Frac(current_step(s) * 100, s.total_steps))

\* round(x, 2) of a non-negative x, in hundredths (no x of the model lies
\* halfway between two hundredths)
round2(x) == (2 * 100 * x.num + x.den) \div (2 * x.den)

\* the window estimate_eta samples
ETA_WINDOW == 20

recent_events_all(events) == events

\* self.events[-min(20, len(self.events)):]
recent_events(events) ==
    LET n == IF ETA_WINDOW < Len(events) THEN ETA_WINDOW ELSE Len(events)
    IN  SubSeq(events, Len(events) - n + 1, Len(events))

\* TrainingSession.estimate_eta: None, or the timedelta as a fraction of the
\* clock unit
estimate_eta(s) ==
    IF Len(s.events) < 2 THEN None
    ELSE LET recent == recent_events(s.events)
         IN  IF Len(recent) < 2 THEN None
             ELSE LET time_diff == recent[Len(recent)].timestamp - recent[1].timestamp
                      steps_diff == recent[Len(recent)].step - recent[1].step
                  IN  IF steps_diff <= 0 THEN None
                      ELSE LET remaining_steps == s.total_steps - current_step(s)
                           IN  Some(Frac(remaining_steps * time_diff, steps_diff))

\* `eta.total_seconds() if eta else None`: a timedelta of zero is falsy
eta_seconds(eta) ==
    IF eta # None /\ eta[1].num # 0 THEN eta ELSE None

\* Optional[datetime] rendered as in to_dict: x.isoformat() if x else None
iso_or_none(x) == IF x = None THEN None ELSE Some(isoformat(x[1]))

\* TrainingSession.to_dict (the snapshot)
session_to_dict(s) ==
    [session_id |-> s.session_id,
     status |-> s.status,
     total_steps |-> s.total_steps,
     current_step |-> current_step(s),
     current_epoch |-> current_epoch(s),
     progress_percent |-> round2(progress_percent(s)),
     latest_loss |-> latest_loss(s),
     eta_seconds |-> eta_seconds(estimate_eta(s)),
     created_at |-> isoformat(s.created_at),
     started_at |-> iso_or_none(s.started_at),
     completed_at |-> iso_or_none(s.completed_at),
     error_message |-> s.error_message,
     event_count |-> Len(s.events)]

----------------------------------------------------------------------------
(* TrainingTracker: the methods as functions of the registry *)

\* the ids _cleanup_expired collects in expired_ids
expired_ids(reg, t) == {sid \in DOMAIN reg : is_expired(reg[sid], t)}

\* TrainingTracker._cleanup_expired: the registry after the deletions
cleanup_expired(reg, t) ==
    [sid \in DOMAIN reg \ expired_ids(reg, t) |-> reg[sid]]

\* the list comprehension [e for e in events if e.step > since_step]
RECURSIVE events_after(_, _)
events_after(events, since_step) ==
    IF events = <<>> THEN <<>>
    ELSE LET rest == events_after(Tail(events), since_step)
         IN  IF Head(events).step > since_step
             THEN <<Head(events)>> \o rest
             ELSE rest

\* get_events that tests `if since_step:` and so takes 0 for None
get_events_truthy(reg, session_id, since_step) ==
    IF session_id \notin DOMAIN reg THEN <<>>
    ELSE LET all == reg[session_id].events
             events == IF since_step # None /\ since_step[1] # 0
                       THEN events_after(all, since_step[1])
                       ELSE all
         IN  [i \in 1..Len(events) |-> event_to_dict(events[i])]

\* TrainingTracker.get_events; since_step is an Optional[int]
get_events(reg, session_id, since_step) ==
    IF session_id \notin DOMAIN reg THEN <<>>
    ELSE LET all == reg[session_id].events
             events == IF since_step # None
                       THEN events_after(all, since_step[1])
                       ELSE all
         IN  [i \in 1..Len(events) |-> event_to_dict(events[i])]

get_latest_max_step(reg, session_id) ==
    IF session_id \notin DOMAIN reg \/ reg[session_id].events = <<>>
    THEN None
    ELSE LET events == reg[session_id].events
             top == CHOOSE i \in 1..Len(events) :
                        \A j \in 1..Len(events) : events[j].step <= events[i].step
         IN  Some(event_to_dict(events[top]))

\* TrainingTracker.get_latest
get_latest(reg, session_id) ==
    IF session_id \notin DOMAIN reg \/ reg[session_id].events = <<>>
    THEN None
    ELSE Some(event_to_dict(reg[session_id].events[Len(reg[session_id].events)]))

\* TrainingTracker.get_status
get_status(reg, session_id) ==
    IF session_id \notin DOMAIN reg THEN None
    ELSE Some(session_to_dict(reg[session_id]))

\* the registry after TrainingTracker.add_event
add_event_sessions(reg, session_id, step, loss, epoch, t) ==
    IF session_id \notin DOMAIN reg THEN reg
    ELSE [reg EXCEPT ![session_id] =
              session_add_event(@, TrainingEvent(step, loss, epoch, t), t)]

\* add_event that returns True also when the session is missing
add_event_result_true(reg, session_id) == TRUE

\* the value TrainingTracker.add_event returns
add_event_result(reg, session_id) == session_id \in DOMAIN reg

\* the value TrainingTracker.complete_session returns
complete_session_result(reg, session_id) == session_id \in DOMAIN reg

\* the value TrainingTracker.fail_session returns
fail_session_result(reg, session_id) == session_id \in DOMAIN reg

\* complete_session that drops the session from the registry
complete_session_sessions_pop(reg, session_id, t) ==
    [sid \in DOMAIN reg \ {session_id} |-> reg[sid]]

\* the registry after TrainingTracker.complete_session
complete_session_sessions(reg, session_id, t) ==
    IF session_id \notin DOMAIN reg THEN reg
    ELSE [reg EXCEPT ![session_id] = session_complete(@, t)]

\* the registry after TrainingTracker.fail_session
fail_session_sessions(reg, session_id, error, t) ==
    IF session_id \notin DOMAIN reg THEN reg
    ELSE [reg EXCEPT ![session_id] = session_fail(@, error, t)]

\* the registry after TrainingTracker.start_session
start_session_sessions_keep(reg, session_id, total_steps, t) ==
    LET kept == cleanup_expired(reg, t)
    IN  [sid \in DOMAIN kept \cup {session_id} |->
            IF sid \in DOMAIN kept
            THEN kept[sid]
            ELSE TrainingSession(session_id, total_steps, t)]

start_session_sessions(reg, session_id, total_steps, t) ==
    LET kept == cleanup_expired(reg, t)
    IN  [sid \in DOMAIN kept \cup {session_id} |->
            IF sid = session_id
            THEN TrainingSession(session_id, total_steps, t)
            ELSE kept[sid]]

\* the body training_webhook returns for the value add_event returned
webhook_response(success) ==
    IF ~success
    THEN [status_code |-> 200, message |-> "Session not found, event ignored",
          received |-> FALSE]
    ELSE [status_code |-> 200, message |-> "Event received", received |-> TRUE]

----------------------------------------------------------------------------
(* The state machine *)

\* json.dumps
json_dumps(x) == [json |-> x]

\* the server-sent events of stream_training_events
ErrorNotification == [event |-> "error", data |-> [text |-> "Session expired"]]
DataNotification(status) == [event |-> "message", data |-> json_dumps(status)]
CompleteNotification(status) == [event |-> "complete", data |-> json_dumps(status)]

\* nobody has requested GET /{session_id}/stream; seen is not a local of
\* the generator: it keeps the event count of the snapshot that the
\* previous iteration read, None in the first iteration
NoFeed ==
    [pc |-> "none", sid |-> "", last_step |-> 0, json |-> FALSE,
     status |-> None, sent |-> <<>>, seen |-> None]

\* stream_training_events up to its return: not found (HTTPException 404) or
\* an event_generator that has not run yet; json tells whether the
\* generator's local name json is bound
stream_training_events_lazy(reg, session_id) ==
    [NoFeed EXCEPT !.pc = "poll", !.sid = session_id]

stream_training_events(reg, session_id) ==
    IF session_id \notin DOMAIN reg
    THEN [NoFeed EXCEPT !.pc = "not_found", !.sid = session_id]
    ELSE [NoFeed EXCEPT !.pc = "poll", !.sid = session_id]

\* event_generator: `status = get_status(session_id)` and the
\* `if status is None:` block, up to its yield
on_status_continue(f, status) ==
    IF status = None
    THEN [f EXCEPT !.pc = "sleep", !.sent = Append(@, ErrorNotification)]
    ELSE [f EXCEPT !.pc = "events", !.status = status]

on_status(f, status) ==
    IF status = None
    THEN [f EXCEPT !.pc = "yield_error", !.status = None,
                   !.sent = Append(@, ErrorNotification)]
    ELSE [f EXCEPT !.pc = "events", !.status = status]

\* event_generator that moves the cursor to the first new event's step
on_events_first(f, new_events) ==
    IF new_events # <<>>
    THEN [f EXCEPT !.pc = "yield_data",
                   !.last_step = new_events[1].step,
                   !.json = TRUE,
                   !.sent = Append(@, DataNotification(f.status[1]))]
    ELSE [f EXCEPT !.pc = "check"]

\* event_generator: `new_events = get_events(session_id, last_step)` and the
\* `if new_events:` block, up to its yield
on_events(f, new_events) ==
    IF new_events # <<>>
    THEN [f EXCEPT !.pc = "yield_data",
                   !.last_step = new_events[Len(new_events)].step,
                   !.json = TRUE,
                   !.sent = Append(@, DataNotification(f.status[1]))]
    ELSE [f EXCEPT !.pc = "check"]

on_check_continue(f) ==
    IF f.status[1].status \in {COMPLETED, FAILED}
    THEN [f EXCEPT !.pc = "sleep",
                   !.sent = Append(@, CompleteNotification(f.status[1]))]
    ELSE [f EXCEPT !.pc = "sleep"]

\* event_generator: `if status["status"] in ("completed", "failed"):` up to
\* its yield; the name json is local to the generator and is bound only by
\* the `import json` inside `if new_events:`, so `json.dumps` raises
\* UnboundLocalError when no iteration has found a new event
on_check(f) ==
    IF f.status[1].status \in {COMPLETED, FAILED}
    THEN IF f.json
         THEN [f EXCEPT !.pc = "yield_complete",
                        !.sent = Append(@, CompleteNotification(f.status[1]))]
         ELSE [f EXCEPT !.pc = "crashed"]
    ELSE [f EXCEPT !.pc = "sleep"]

\* the tracker after `training_tracker = TrainingTracker()` at import: no
\* thread is inside a call, no lock is held, nobody is subscribed
Constructed ==
    /\ added = 0
    /\ threads = <<>>
    /\ locks = [cls |-> None, session |-> None]
    /\ instance = [ref |-> Some("main"),
                   attrs |-> [o \in {"main"} |-> {"_sessions", "_session_lock"}],
                   maps_created |-> 1]
    /\ feed = NoFeed
    /\ history = <<>>

Init ==
    /\ now = 0
    /\ sessions = <<>>
    /\ accepted = [sid \in TwoIds |-> <<>>]
    /\ ret = [op |-> "init"]
    /\ Constructed

\* the history of the ids a sweep at time t deletes is forgotten with them
forget(acc, reg, t) ==
    [sid \in TwoIds |-> IF sid \in expired_ids(reg, t) THEN <<>> ELSE acc[sid]]

\* time passes
Tick ==
    /\ now < MaxTime
    /\ now' = now + 1
    /\ ret' = [op |-> "tick"]
    /\ UNCHANGED <<sessions, accepted>>

\* TrainingTracker.start_session
StartSession(sid) ==
    \E total \in TotalStepsValues :
        /\ sessions' = start_session_sessions(sessions, sid, total, now)
        /\ accepted' = [forget(accepted, sessions, now) EXCEPT ![sid] = <<>>]
        /\ ret' = [op |-> "start_session", sid |-> sid,
                   cleaned |-> Cardinality(expired_ids(sessions, now)),
                   replaced |-> get_status(cleanup_expired(sessions, now), sid),
                   value |-> sessions'[sid]]
        /\ UNCHANGED now

\* training_webhook, which calls TrainingTracker.add_event; room is the
\* model's bound on the stored events
TrainingWebhook(sid, room) ==
    \E step \in Steps, loss \in Losses, epoch \in Epochs :
        /\ sid \in DOMAIN sessions => room
        /\ sessions' = add_event_sessions(sessions, sid, step, loss, epoch, now)
        /\ LET success == add_event_result(sessions, sid)
           IN  /\ accepted' =
                     IF success
                     THEN [accepted EXCEPT ![sid] =
                              Append(@, [step |-> step, loss |-> loss,
                                         epoch |-> epoch, at |-> now])]
                     ELSE accepted
               /\ ret' = [op |-> "add_event", sid |-> sid, step |-> step,
                          loss |-> loss, value |-> success,
                          response |-> webhook_response(success)]
        /\ UNCHANGED now

\* TrainingTracker.complete_session
CompleteSession(sid) ==
    /\ sessions' = complete_session_sessions(sessions, sid, now)
    /\ ret' = [op |-> "complete_session", sid |-> sid,
               value |-> complete_session_result(sessions, sid)]
    /\ UNCHANGED <<now, accepted>>

\* TrainingTracker.fail_session
FailSession(sid) ==
    \E error \in ErrorMessages :
        /\ sessions' = fail_session_sessions(sessions, sid, error, now)
        /\ ret' = [op |-> "fail_session", sid |-> sid, error |-> error,
                   value |-> fail_session_result(sessions, sid)]
        /\ UNCHANGED <<now, accepted>>

\* TrainingTracker.get_events
GetEvents(sid) ==
    \E since \in SinceSteps :
        /\ ret' = [op |-> "get_events", sid |-> sid, since_step |-> since,
                   value |-> get_events(sessions, sid, since)]
        /\ UNCHANGED <<now, sessions, accepted>>

\* TrainingTracker.get_latest
GetLatest(sid) ==
    /\ ret' = [op |-> "get_latest", sid |-> sid,
               value |-> get_latest(sessions, sid)]
    /\ UNCHANGED <<now, sessions, accepted>>

\* TrainingTracker.get_status
GetStatus(sid) ==
    /\ ret' = [op |-> "get_status", sid |-> sid,
               value |-> get_status(sessions, sid)]
    /\ UNCHANGED <<now, sessions, accepted>>

\* TrainingTracker.list_sessions; the snapshots are kept as a set (the order
\* of the returned list, the dict's insertion order, is left out)
ListSessions ==
    /\ sessions' = cleanup_expired(sessions, now)
    /\ accepted' = forget(accepted, sessions, now)
    /\ ret' = [op |-> "list_sessions",
               cleaned |-> Cardinality(expired_ids(sessions, now)),
               value |-> {session_to_dict(sessions'[sid]) : sid \in DOMAIN sessions'}]
    /\ UNCHANGED now

\* TrainingTracker.active_count
ActiveCount ==
    /\ sessions' = cleanup_expired(sessions, now)
    /\ accepted' = forget(accepted, sessions, now)
    /\ ret' = [op |-> "active_count",
               cleaned |-> Cardinality(expired_ids(sessions, now)),
               value |-> Cardinality(DOMAIN sessions')]
    /\ UNCHANGED now

\* one session id, a log of up to MaxEvents events
Next ==
    \/ Tick /\ UNCHANGED others
    \/ \E sid \in SessionIds : StartSession(sid) /\ UNCHANGED others
    \/ \E sid \in SessionIds :
           TrainingWebhook(sid, Len(sessions[sid].events) < MaxEvents) /\ UNCHANGED others
    \/ \E sid \in SessionIds : CompleteSession(sid) /\ UNCHANGED others
    \/ \E sid \in SessionIds : FailSession(sid) /\ UNCHANGED others
    \/ \E sid \in SessionIds : GetEvents(sid) /\ UNCHANGED others
    \/ \E sid \in SessionIds : GetLatest(sid) /\ UNCHANGED others
    \/ \E sid \in SessionIds : GetStatus(sid) /\ UNCHANGED others
    \/ ListSessions /\ UNCHANGED others
    \/ ActiveCount /\ UNCHANGED others

Spec == Init /\ [][Next]_vars

\* two session ids; the webhook is delivered for unregistered ids only (stray
\* deliveries), so the sessions of this specification hold no events
NextTwo ==
    \/ Tick /\ UNCHANGED others
    \/ \E sid \in TwoIds : StartSession(sid) /\ UNCHANGED others
    \/ \E sid \in TwoIds :
           TrainingWebhook(sid, FALSE) /\ UNCHANGED others
    \/ \E sid \in TwoIds : CompleteSession(sid) /\ UNCHANGED others
    \/ \E sid \in TwoIds : FailSession(sid) /\ UNCHANGED others
    \/ \E sid \in TwoIds : GetEvents(sid) /\ UNCHANGED others
    \/ \E sid \in TwoIds : GetLatest(sid) /\ UNCHANGED others
    \/ \E sid \in TwoIds : GetStatus(sid) /\ UNCHANGED others
    \/ ListSessions /\ UNCHANGED others
    \/ ActiveCount /\ UNCHANGED others

SpecTwo == Init /\ [][NextTwo]_vars

----------------------------------------------------------------------------
(* Sessions with long logs: the derived values of a session               *)
(* (progress_percent, estimate_eta, get_latest, the snapshot) are checked  *)
(* on sessions whose log was built by up to MaxLogLen add_event calls,     *)
(* more than the ETA window holds.                                         *)

MaxLogLen == 22
MaxAdded == 1
CalcSteps == {0, 1, 3}
CalcTotals == {0, 2}
Paces == {0, 1}

\* n add_event calls: step lo before the k-th call and hi from it on, one call
\* every pace clock units; loss and epoch tell the calls apart
DrawnCalls(n, k, lo, hi, pace) ==
    [i \in 1..n |-> [step |-> IF i < k THEN lo ELSE hi, loss |-> i,
                     epoch |-> i % 2, at |-> i * pace]]

\* the session object after the add_event calls cs
RECURSIVE replay(_, _)
replay(s, cs) ==
    IF cs = <<>> THEN s
    ELSE LET c == Head(cs)
         IN  replay(session_add_event(s,
                        TrainingEvent(c.step, c.loss, c.epoch, c.at), c.at),
                    Tail(cs))

InitSession ==
    \E n \in 0..MaxLogLen, k \in 1..MaxLogLen, lo \in CalcSteps, hi \in CalcSteps,
       pace \in Paces, total \in CalcTotals :
        /\ k <= n \/ k = 1
        /\ lo = hi => k = 1
        /\ now = n * pace
        /\ sessions = [sid \in SessionIds |->
                          replay(TrainingSession(sid, total, 0),
                                 DrawnCalls(n, k, lo, hi, pace))]
        /\ accepted = [sid \in TwoIds |->
                          IF sid \in SessionIds
                          THEN DrawnCalls(n, k, lo, hi, pace) ELSE <<>>]
        /\ ret = [op |-> "init"]
        /\ Constructed

\* TrainingTracker.add_event with any step of CalcSteps
AddEvent(sid) ==
    \E step \in CalcSteps :
        /\ added < MaxAdded
        /\ sessions' = add_event_sessions(sessions, sid, step,
                                          Len(accepted[sid]) + 1, 0, now)
        /\ LET success == add_event_result(sessions, sid)
           IN  /\ accepted' =
                      IF success
                      THEN [accepted EXCEPT ![sid] =
                               Append(@, [step |-> step,
                                          loss |-> Len(accepted[sid]) + 1,
                                          epoch |-> 0, at |-> now])]
                      ELSE accepted
               /\ ret' = [op |-> "add_event", sid |-> sid, value |-> success]
        /\ added' = added + 1
        /\ UNCHANGED <<now, threads, locks, instance, feed, history>>

NextSession ==
    \/ \E sid \in SessionIds : AddEvent(sid)
    \/ \E sid \in SessionIds : GetStatus(sid) /\ UNCHANGED others
    \/ \E sid \in TwoIds : GetLatest(sid) /\ UNCHANGED others

SpecSession == InitSession /\ [][NextSession]_vars

----------------------------------------------------------------------------
(* TrainingTracker.__new__ line by line, called by several threads while   *)
(* TrainingTracker._instance is still None.  A thread can be preempted     *)
(* between any two lines; an object is named after the thread that         *)
(* allocated it.                                                           *)

Threads == {"t1", "t2", "t3"}

InitNew ==
    /\ now = 0
    /\ sessions = <<>>
    /\ accepted = [sid \in TwoIds |-> <<>>]
    /\ ret = [op |-> "init"]
    /\ added = 0
    /\ threads = [t \in Threads |-> [pc |-> "check", got |-> None]]
    /\ locks = [cls |-> None, session |-> None]
    /\ instance = [ref |-> None, attrs |-> <<>>, maps_created |-> 0]
    /\ feed = NoFeed
    /\ history = <<>>

\* what the steps of __new__ leave alone
NewFrame == UNCHANGED <<now, sessions, accepted, added, feed, history>>

\* `if cls._instance is None:`, read without the lock
NewCheck(t) ==
    /\ threads[t].pc = "check"
    /\ threads' = [threads EXCEPT ![t].pc =
                       IF instance.ref = None THEN "acquire" ELSE "return"]
    /\ UNCHANGED <<locks, instance, ret>>
    /\ NewFrame

\* `with cls._lock:` entered
NewAcquire(t) ==
    /\ threads[t].pc = "acquire"
    /\ locks.cls = None
    /\ locks' = [locks EXCEPT !.cls = Some(t)]
    /\ threads' = [threads EXCEPT ![t].pc = "recheck"]
    /\ UNCHANGED <<instance, ret>>
    /\ NewFrame

\* the second `if cls._instance is None:`
NewRecheck(t) ==
    /\ threads[t].pc = "recheck"
    /\ threads' = [threads EXCEPT ![t].pc =
                       IF instance.ref = None THEN "alloc" ELSE "release"]
    /\ UNCHANGED <<locks, instance, ret>>
    /\ NewFrame

\* `cls._instance = super().__new__(cls)`
NewAlloc(t) ==
    /\ threads[t].pc = "alloc"
    /\ instance' = [instance EXCEPT
                        !.ref = Some(t),
                        !.attrs = [o \in DOMAIN @ \cup {t} |-> {}]]
    /\ threads' = [threads EXCEPT ![t].pc = "set_sessions"]
    /\ UNCHANGED <<locks, ret>>
    /\ NewFrame

\* `cls._instance._sessions = {}`
NewSetSessions(t) ==
    /\ threads[t].pc = "set_sessions"
    /\ instance' = [instance EXCEPT
                        !.attrs[instance.ref[1]] = @ \cup {"_sessions"},
                        !.maps_created = @ + 1]
    /\ threads' = [threads EXCEPT ![t].pc = "set_lock"]
    /\ UNCHANGED <<locks, ret>>
    /\ NewFrame

\* `cls._instance._session_lock = threading.Lock()`
NewSetLock(t) ==
    /\ threads[t].pc = "set_lock"
    /\ instance' = [instance EXCEPT
                        !.attrs[instance.ref[1]] = @ \cup {"_session_lock"}]
    /\ threads' = [threads EXCEPT ![t].pc = "release"]
    /\ UNCHANGED <<locks, ret>>
    /\ NewFrame

\* the end of the `with cls._lock:` block
NewRelease(t) ==
    /\ threads[t].pc = "release"
    /\ locks' = [locks EXCEPT !.cls = None]
    /\ threads' = [threads EXCEPT ![t].pc = "return"]
    /\ UNCHANGED <<instance, ret>>
    /\ NewFrame

\* `return cls._instance`; got is the object and the attributes it has at
\* that moment
NewReturn(t) ==
    /\ threads[t].pc = "return"
    /\ LET got == [ref |-> instance.ref[1],
                   attrs |-> instance.attrs[instance.ref[1]]]
       IN  /\ threads' = [threads EXCEPT ![t] = [pc |-> "done", got |-> Some(got)]]
           /\ ret' = [op |-> "TrainingTracker", thread |-> t, value |-> got]
    /\ UNCHANGED <<locks, instance>>
    /\ NewFrame

\* the thread constructs the tracker again
NewAgain(t) ==
    /\ threads[t].pc = "done"
    /\ threads' = [threads EXCEPT ![t].pc = "check"]
    /\ UNCHANGED <<locks, instance, ret>>
    /\ NewFrame

NextNew ==
    \/ \E t \in Threads : NewCheck(t)
    \/ \E t \in Threads : NewAcquire(t)
    \/ \E t \in Threads : NewRecheck(t)
    \/ \E t \in Threads : NewAlloc(t)
    \/ \E t \in Threads : NewSetSessions(t)
    \/ \E t \in Threads : NewSetLock(t)
    \/ \E t \in Threads : NewRelease(t)
    \/ \E t \in Threads : NewReturn(t)
    \/ \E t \in Threads : NewAgain(t)

SpecNew == InitNew /\ [][NextNew]_vars

----------------------------------------------------------------------------
(* add_event and get_status line by line, called by several threads on one *)
(* tracker: a thread can be preempted between any two lines, and           *)
(* `with self._session_lock` lets one thread at a time past it.  The clock *)
(* stands still in this specification.                                     *)

MaxWrites == 2

\* threading.Lock: acquire goes through when nobody holds the lock
lock_free_always(holder) == TRUE

lock_free(holder) == holder = None

idle == [pc |-> "idle"]

InitLock ==
    /\ now = 0
    /\ sessions = [sid \in SessionIds |-> TrainingSession(sid, 2, 0)]
    /\ accepted = [sid \in TwoIds |-> <<>>]
    /\ ret = [op |-> "init"]
    /\ added = 0
    /\ threads = [t \in Threads |-> idle]
    /\ locks = [cls |-> None, session |-> None]
    /\ instance = [ref |-> Some("main"),
                   attrs |-> [o \in {"main"} |-> {"_sessions", "_session_lock"}],
                   maps_created |-> 1]
    /\ feed = NoFeed
    /\ history = <<>>

\* a thread calls add_event; the loss numbers the calls
AddEventCall(t) ==
    \E sid \in TwoIds, step \in Steps :
        /\ threads[t].pc = "idle"
        /\ added < MaxWrites
        /\ added' = added + 1
        /\ threads' = [threads EXCEPT ![t] =
                           [pc |-> "acquire", op |-> "add_event", sid |-> sid,
                            step |-> step, loss |-> added + 1]]
        /\ UNCHANGED <<now, sessions, accepted, ret, locks, instance, feed, history>>

\* a thread calls get_status
GetStatusCall(t) ==
    \E sid \in SessionIds :
        /\ threads[t].pc = "idle"
        /\ threads' = [threads EXCEPT ![t] =
                           [pc |-> "acquire", op |-> "get_status", sid |-> sid]]
        /\ UNCHANGED <<now, sessions, accepted, ret, added, locks, instance, feed,
                       history>>

\* `with self._session_lock:` entered
SessionLockAcquire(t) ==
    /\ threads[t].pc = "acquire"
    /\ lock_free(locks.session)
    /\ locks' = [locks EXCEPT !.session = Some(t)]
    /\ threads' = [threads EXCEPT ![t].pc = "body"]
    /\ history' = IF threads[t].op = "add_event"
                  THEN Append(history, [thread |-> t, sid |-> threads[t].sid,
                                        step |-> threads[t].step,
                                        loss |-> threads[t].loss,
                                        epoch |-> 0, at |-> now])
                  ELSE history
    /\ UNCHANGED <<now, sessions, accepted, ret, added, instance, feed>>

\* add_event: `session = self._sessions.get(session_id)`, the early return
\* and the construction of the TrainingEvent
AddEventLookup(t) ==
    /\ threads[t].pc = "body"
    /\ threads[t].op = "add_event"
    /\ threads' = [threads EXCEPT ![t] =
                       IF threads[t].sid \notin DOMAIN sessions
                       THEN [@ EXCEPT !.pc = "release"] @@ [result |-> FALSE]
                       ELSE [@ EXCEPT !.pc = "append"] @@
                            [event |-> TrainingEvent(threads[t].step,
                                                     threads[t].loss, 0, now)]]
    /\ UNCHANGED <<now, sessions, accepted, ret, added, locks, instance, feed,
                   history>>

\* TrainingSession.add_event: `self.events.append(event)`
AddEventAppend(t) ==
    /\ threads[t].pc = "append"
    /\ sessions' = [sessions EXCEPT ![threads[t].sid].events =
                        Append(@, threads[t].event)]
    /\ threads' = [threads EXCEPT ![t].pc = "touch"]
    /\ UNCHANGED <<now, accepted, ret, added, locks, instance, feed, history>>

\* TrainingSession.add_event: `self._last_activity = datetime.now(...)`
AddEventTouch(t) ==
    /\ threads[t].pc = "touch"
    /\ sessions' = [sessions EXCEPT ![threads[t].sid].last_activity = now]
    /\ threads' = [threads EXCEPT ![t].pc = "status"]
    /\ UNCHANGED <<now, accepted, ret, added, locks, instance, feed, history>>

\* TrainingSession.add_event: `if self.status == PENDING: self.status = RUNNING`
AddEventStatus(t) ==
    /\ threads[t].pc = "status"
    /\ IF sessions[threads[t].sid].status = PENDING
       THEN /\ sessions' = [sessions EXCEPT ![threads[t].sid].status = RUNNING]
            /\ threads' = [threads EXCEPT ![t].pc = "started"]
       ELSE /\ threads' = [threads EXCEPT ![t] =
                               [@ EXCEPT !.pc = "release"] @@ [result |-> TRUE]]
            /\ UNCHANGED sessions
    /\ UNCHANGED <<now, accepted, ret, added, locks, instance, feed, history>>

\* TrainingSession.add_event: `self.started_at = event.timestamp`
AddEventStarted(t) ==
    /\ threads[t].pc = "started"
    /\ sessions' = [sessions EXCEPT ![threads[t].sid].started_at =
                        Some(threads[t].event.timestamp)]
    /\ threads' = [threads EXCEPT ![t] =
                       [@ EXCEPT !.pc = "release"] @@ [result |-> TRUE]]
    /\ UNCHANGED <<now, accepted, ret, added, locks, instance, feed, history>>

\* get_status: the lookup and `session.to_dict()`
GetStatusRead(t) ==
    /\ threads[t].pc = "body"
    /\ threads[t].op = "get_status"
    /\ threads' = [threads EXCEPT ![t] =
                       [@ EXCEPT !.pc = "release"] @@
                       [result |-> get_status(sessions, threads[t].sid)]]
    /\ UNCHANGED <<now, sessions, accepted, ret, added, locks, instance, feed,
                   history>>

\* the end of the `with` block and the return of the call
SessionLockRelease(t) ==
    /\ threads[t].pc = "release"
    /\ locks' = [locks EXCEPT !.session = None]
    /\ ret' = [op |-> threads[t].op, sid |-> threads[t].sid,
               value |-> threads[t].result, thread |-> t]
    /\ threads' = [threads EXCEPT ![t] = idle]
    /\ UNCHANGED <<now, sessions, accepted, added, instance, feed, history>>

NextLock ==
    \/ \E t \in Threads : AddEventCall(t)
    \/ \E t \in Threads : GetStatusCall(t)
    \/ \E t \in Threads : SessionLockAcquire(t)
    \/ \E t \in Threads : AddEventLookup(t)
    \/ \E t \in Threads : AddEventAppend(t)
    \/ \E t \in Threads : AddEventTouch(t)
    \/ \E t \in Threads : AddEventStatus(t)
    \/ \E t \in Threads : AddEventStarted(t)
    \/ \E t \in Threads : GetStatusRead(t)
    \/ \E t \in Threads : SessionLockRelease(t)

SpecLock == InitLock /\ [][NextLock]_vars

----------------------------------------------------------------------------
(* One subscription to GET /{session_id}/stream next to the calls of the   *)
(* registry.  The generator reads the registry twice per iteration         *)
(* (get_status, get_events), each read a critical section of its own, and  *)
(* is suspended at every yield and in asyncio.sleep.                       *)

MaxFeedEvents == 1

\* a feed whose steps count as activity of the session they watch
FeedFrame_touch ==
    /\ sessions' = [sid \in DOMAIN sessions |->
                       IF sid = feed.sid
                       THEN [sessions[sid] EXCEPT !.last_activity = now]
                       ELSE sessions[sid]]
    /\ UNCHANGED <<now, accepted, added, threads, locks, instance, history>>

\* what the steps of the feed leave alone
FeedFrame ==
    UNCHANGED <<now, sessions, accepted, added, threads, locks, instance, history>>

\* GET /{session_id}/stream: get_session, 404 or the StreamingResponse
Subscribe(sid) ==
    /\ feed.pc = "none"
    /\ feed' = stream_training_events(sessions, sid)
    /\ ret' = [op |-> "stream", sid |-> sid,
               status_code |-> IF feed'.pc = "not_found" THEN 404 ELSE 200]
    /\ FeedFrame

\* the top of the loop: get_status and the error branch
FeedGetStatus ==
    /\ feed.pc = "poll"
    /\ feed' = [on_status(feed, get_status(sessions, feed.sid))
                  EXCEPT !.seen = IF feed.status = None THEN None
                                  ELSE Some(feed.status[1].event_count)]
    /\ UNCHANGED ret
    /\ FeedFrame

\* get_events(session_id, last_step) and the status update
FeedGetEvents ==
    /\ feed.pc = "events"
    /\ feed' = on_events(feed, get_events(sessions, feed.sid, Some(feed.last_step)))
    /\ UNCHANGED ret
    /\ FeedFrame

\* the consumer takes the yielded notification and the generator goes on:
\* to the completion check after a status update, to `break` after a
\* terminal notification
FeedResume ==
    /\ feed.pc \in {"yield_data", "yield_complete", "yield_error"}
    /\ feed' = [feed EXCEPT !.pc = IF feed.pc = "yield_data" THEN "check"
                                   ELSE "done"]
    /\ UNCHANGED ret
    /\ FeedFrame

\* the completion check
FeedCheck ==
    /\ feed.pc = "check"
    /\ feed' = on_check(feed)
    /\ UNCHANGED ret
    /\ FeedFrame

\* asyncio.sleep(interval) returns
FeedWake ==
    /\ feed.pc = "sleep"
    /\ feed' = [feed EXCEPT !.pc = "poll"]
    /\ UNCHANGED ret
    /\ FeedFrame

\* the generator has no try/except/finally: a CancelledError (in
\* asyncio.sleep) or GeneratorExit (at a yield) thrown into it ends it
cancelled_swallowed(f) == [f EXCEPT !.pc = "poll"]

cancelled(f) == [f EXCEPT !.pc = "cancelled"]

\* the client disconnects: the generator is cancelled where it is suspended
FeedCancel ==
    /\ feed.pc \in {"sleep", "yield_data", "yield_complete", "yield_error"}
    /\ feed' = cancelled(feed)
    /\ ret' = [op |-> "disconnect", sid |-> feed.sid, at |-> feed.pc]
    /\ FeedFrame

\* what the calls of the registry leave alone next to a subscription
NotFeed == <<added, threads, locks, instance, history>>

\* the trainer reports the end of a session once, and a session id is not
\* started again while it is registered
Unfinished(sid) ==
    sid \in DOMAIN sessions => sessions[sid].status \notin {COMPLETED, FAILED}

NextFeed ==
    \/ \E sid \in TwoIds : Subscribe(sid)
    \/ FeedGetStatus
    \/ FeedGetEvents
    \/ FeedResume
    \/ FeedCheck
    \/ FeedWake
    \/ FeedCancel
    \/ Tick /\ UNCHANGED <<feed, NotFeed>>
    \/ \E sid \in SessionIds :
           sid \notin DOMAIN sessions /\ StartSession(sid)
               /\ UNCHANGED <<feed, NotFeed>>
    \/ \E sid \in SessionIds :
           TrainingWebhook(sid, Len(sessions[sid].events) < MaxFeedEvents)
               /\ UNCHANGED <<feed, NotFeed>>
    \/ \E sid \in SessionIds :
           Unfinished(sid) /\ CompleteSession(sid) /\ UNCHANGED <<feed, NotFeed>>
    \/ \E sid \in SessionIds :
           Unfinished(sid) /\ FailSession(sid) /\ UNCHANGED <<feed, NotFeed>>
    \/ ActiveCount /\ UNCHANGED <<feed, NotFeed>>

SpecFeed == Init /\ [][NextFeed]_vars

----------------------------------------------------------------------------
(* One subscription to a session whose events carry any steps of           *)
(* CalcSteps in any order: up to MaxStartLog events are in the log before  *)
(* the subscription, up to MaxAdded more arrive at any moment.  The clock  *)
(* stands still after the session's creation and the session is neither    *)
(* completed nor swept, so the stream ends only when the client leaves.    *)

MaxStartLog == 1

InitCursor ==
    \E n \in 0..MaxStartLog, step \in CalcSteps, total \in TotalStepsValues :
        /\ n = 0 => step = 0
        /\ now = 1
        /\ sessions = [sid \in SessionIds |->
                          replay(TrainingSession(sid, total, 0),
                                 DrawnCalls(n, 1, step, step, 0))]
        /\ accepted = [sid \in TwoIds |->
                          IF sid \in SessionIds
                          THEN DrawnCalls(n, 1, step, step, 0) ELSE <<>>]
        /\ ret = [op |-> "init"]
        /\ Constructed

NextCursor ==
    \/ \E sid \in SessionIds : Subscribe(sid)
    \/ FeedGetStatus
    \/ FeedGetEvents
    \/ FeedResume
    \/ FeedCheck
    \/ FeedWake
    \/ FeedCancel
    \/ \E sid \in SessionIds : AddEvent(sid)

\* the event loop runs the generator: a read of the registry returns,
\* asyncio.sleep returns after the interval, and the response takes every
\* notification the generator yields
FeedRuns ==
    /\ WF_vars(FeedGetStatus)
    /\ WF_vars(FeedGetEvents)
    /\ WF_vars(FeedResume)
    /\ WF_vars(FeedCheck)
    /\ WF_vars(FeedWake)

SpecCursor == InitCursor /\ [][NextCursor]_vars /\ FeedRuns

----------------------------------------------------------------------------
(* Two subscriptions to the same session.  Each GET /{session_id}/stream   *)
(* creates its own event_generator, whose locals (last_step, status,       *)
(* new_events) belong to that generator alone; the second subscription is  *)
(* kept in threads under the name Other and runs the same code.            *)

Other == "other"

\* the second subscription has been requested
Watching == Other \in DOMAIN threads

\* GET /{session_id}/stream, requested a second time
OtherSubscribe(sid) ==
    /\ ~Watching
    /\ feed.pc # "none"
    /\ threads' = [w \in {Other} |-> stream_training_events(sessions, sid)]
    /\ ret' = [op |-> "stream", sid |-> sid,
               status_code |-> IF threads'[Other].pc = "not_found" THEN 404
                               ELSE 200]
    /\ UNCHANGED <<now, sessions, accepted, added, locks, instance, feed, history>>

\* event_generator from where it stands to its next suspension or read
event_generator(f, reg) ==
    CASE f.pc = "poll" -> on_status(f, get_status(reg, f.sid))
      [] f.pc = "events" -> on_events(f, get_events(reg, f.sid, Some(f.last_step)))
      [] f.pc = "yield_data" -> [f EXCEPT !.pc = "check"]
      [] f.pc \in {"yield_complete", "yield_error"} -> [f EXCEPT !.pc = "done"]
      [] f.pc = "check" -> on_check(f)
      [] f.pc = "sleep" -> [f EXCEPT !.pc = "poll"]

\* the second subscription's generator runs
OtherStep ==
    /\ Watching
    /\ threads[Other].pc \in {"poll", "events", "yield_data", "yield_complete",
                              "yield_error", "check", "sleep"}
    /\ threads' = [threads EXCEPT ![Other] = event_generator(@, sessions)]
    /\ UNCHANGED <<now, sessions, accepted, added, locks, instance, feed, history, ret>>

NextObservers ==
    \/ NextCursor
    \/ \E sid \in SessionIds : OtherSubscribe(sid)
    \/ OtherStep

SpecObservers == InitCursor /\ [][NextObservers]_vars

----------------------------------------------------------------------------
(* What a caller holds after a call.  A method hands its caller either a   *)
(* value built during the call (to_dict and the list comprehensions build  *)
(* new dicts of numbers, strings and None) or the stored TrainingSession   *)
(* itself; a stored object that is handed out is shared: it shows every    *)
(* later change made through the registry until start_session or a sweep   *)
(* takes it out of _sessions, and a change made through it is a change of  *)
(* the registry.  The caller's holding is kept in threads under Caller.    *)

Caller == "caller"

\* the calls whose result the caller may keep
HandedOps == {"start_session", "get_status", "get_events", "get_latest",
              "list_sessions"}

\* get_status that returns the session instead of session.to_dict()
returns_stored_status(op) == op \in {"start_session", "get_status"}

\* `return session` (start_session), against `return session.to_dict()` and
\* `[e.to_dict() for e in ...]`
returns_stored(op) == op = "start_session"

\* what the call recorded in r has handed to its caller; reg is the registry
\* after the call
handed(r, reg) ==
    LET sid == IF r.op = "list_sessions" THEN "" ELSE r.sid
    IN  IF returns_stored(r.op) /\ sid \in DOMAIN reg
        THEN [op |-> r.op, sid |-> sid, kind |-> "stored", linked |-> TRUE,
              value |-> reg[sid]]
        ELSE [op |-> r.op, sid |-> sid, kind |-> "built", linked |-> FALSE,
              value |-> r.value]

\* the holdings hs after a step of the registry that ended in reg and
\* recorded r: a stored object still in _sessions shows its new state
shared(hs, reg, r) ==
    [c \in DOMAIN hs |->
        IF hs[c].kind = "stored" /\ hs[c].linked
        THEN IF /\ hs[c].sid \in DOMAIN reg
                /\ ~(r.op = "start_session" /\ r.sid = hs[c].sid)
             THEN [hs[c] EXCEPT !.value = reg[hs[c].sid]]
             ELSE [hs[c] EXCEPT !.linked = FALSE]
        ELSE hs[c]]

\* what a step of the registry leaves alone next to a caller's holding
NotHeld == <<added, locks, instance, feed, history>>

\* a step of the registry, seen by the holder of a stored object
Shared == threads' = shared(threads, sessions', ret') /\ UNCHANGED NotHeld

\* the caller keeps what the last call returned; it keeps one result
Keep ==
    /\ ret.op \in HandedOps
    /\ threads = <<>>
    /\ threads' = [c \in {Caller} |-> handed(ret, sessions)]
    /\ ret' = [op |-> "keep"]
    /\ UNCHANGED <<now, sessions, accepted, NotHeld>>

\* the caller changes what it holds in place: it sets total_steps of the
\* snapshot, or of the session, to 0
Tamper ==
    /\ Caller \in DOMAIN threads
    /\ LET h == threads[Caller]
       IN  /\ h.op \in {"start_session", "get_status"}
           /\ IF h.kind = "stored"
              THEN /\ h.value.total_steps # 0
                   /\ threads' = [threads EXCEPT
                                     ![Caller].value.total_steps = 0]
                   /\ sessions' = IF h.linked
                                  THEN [sessions EXCEPT
                                           ![h.sid].total_steps = 0]
                                  ELSE sessions
              ELSE /\ h.value # None
                   /\ h.value[1].total_steps # 0
                   /\ threads' = [threads EXCEPT
                                     ![Caller].value[1].total_steps = 0]
                   /\ sessions' = sessions
    /\ ret' = [op |-> "tamper"]
    /\ UNCHANGED <<now, accepted, NotHeld>>

\* the clock is followed until a session that was never touched has
\* expired (is_expired: now > _last_activity + TTL)
Horizon == TTL + 1

NextRefs ==
    \/ now < Horizon /\ Tick /\ Shared
    \/ \E sid \in SessionIds : sid \notin DOMAIN sessions /\ StartSession(sid) /\ Shared
    \/ \E sid \in SessionIds :
           TrainingWebhook(sid, Len(sessions[sid].events) < MaxFeedEvents) /\ Shared
    \/ \E sid \in SessionIds : Unfinished(sid) /\ CompleteSession(sid) /\ Shared
    \/ \E sid \in SessionIds : Unfinished(sid) /\ FailSession(sid) /\ Shared
    \/ \E sid \in SessionIds : GetEvents(sid) /\ Shared
    \/ \E sid \in SessionIds : GetLatest(sid) /\ Shared
    \/ \E sid \in SessionIds : GetStatus(sid) /\ Shared
    \/ ListSessions /\ Shared
    \/ Keep
    \/ Tamper

SpecRefs == Init /\ [][NextRefs]_vars

----------------------------------------------------------------------------
(* Every method of the tracker called by several threads: the call, the    *)
(* entry into `with self._session_lock:`, the body, and the end of the     *)
(* with block together with the return.  The body is one step here (the    *)
(* lines of add_event are followed one by one in SpecLock); the threads    *)
(* make up to MaxWrites calls between them.                                *)

TrackerOps == {"start_session", "get_session", "add_event", "complete_session",
               "fail_session", "get_events", "get_latest", "get_status",
               "list_sessions", "active_count"}

\* the methods whose body calls self._cleanup_expired()
SweepingOps == {"start_session", "list_sessions", "active_count"}

\* a thread calls a method of the tracker
OpCall(t) ==
    \E op \in TrackerOps, sid \in SessionIds, step \in Steps :
        /\ threads[t].pc = "idle"
        /\ op # "add_event" => step = 0
        /\ added < MaxWrites
        /\ added' = added + 1
        /\ threads' = [threads EXCEPT ![t] =
                           [pc |-> "acquire", op |-> op, sid |-> sid,
                            step |-> step, loss |-> added + 1]]
        /\ UNCHANGED <<now, sessions, accepted, ret, locks, instance, feed, history>>

\* a _cleanup_expired that takes the lock itself
cleanup_enters_locked(holder) == lock_free(holder)

\* _cleanup_expired is entered from inside the caller's with block and has
\* no `with` of its own: it runs whoever holds the lock
cleanup_enters(holder) == TRUE

\* _sessions after the body of the method op
body_sessions(reg, op, sid, step, loss, t) ==
    CASE op = "start_session" ->
             start_session_sessions(reg, sid, CHOOSE n \in TotalStepsValues : TRUE, t)
      [] op = "add_event" -> add_event_sessions(reg, sid, step, loss, 0, t)
      [] op = "complete_session" -> complete_session_sessions(reg, sid, t)
      [] op = "fail_session" ->
             fail_session_sessions(reg, sid, CHOOSE e \in ErrorMessages : TRUE, t)
      [] op \in {"list_sessions", "active_count"} -> cleanup_expired(reg, t)
      [] OTHER -> reg

\* what the body of the method op returns; reg is _sessions before the
\* body, and the session that start_session and get_session return is
\* shown by its snapshot
body_result(reg, op, sid, step, loss, t) ==
    CASE op \in {"start_session", "get_session"} ->
             get_status(body_sessions(reg, op, sid, step, loss, t), sid)
      [] op = "add_event" -> add_event_result(reg, sid)
      [] op = "complete_session" -> complete_session_result(reg, sid)
      [] op = "fail_session" -> fail_session_result(reg, sid)
      [] op = "get_events" -> get_events(reg, sid, None)
      [] op = "get_latest" -> get_latest(reg, sid)
      [] op = "get_status" -> get_status(reg, sid)
      [] op = "list_sessions" ->
             {session_to_dict(s) : s \in {cleanup_expired(reg, t)[i] :
                                           i \in DOMAIN cleanup_expired(reg, t)}}
      [] op = "active_count" -> Cardinality(DOMAIN cleanup_expired(reg, t))

\* the body of the with block, up to its end
OpBody(t) ==
    /\ threads[t].pc = "body"
    /\ threads[t].op \in SweepingOps => cleanup_enters(locks.session)
    /\ LET c == threads[t]
       IN  /\ sessions' = body_sessions(sessions, c.op, c.sid, c.step, c.loss, now)
           /\ threads' = [threads EXCEPT ![t] =
                             [@ EXCEPT !.pc = "release"] @@
                             [result |-> body_result(sessions, c.op, c.sid,
                                                     c.step, c.loss, now)]]
    /\ UNCHANGED <<now, accepted, ret, added, locks, instance, feed, history>>

\* the threads that call the tracker here
Callers == {"t1", "t2"}

NextOps ==
    \/ \E t \in Callers : OpCall(t)
    \/ \E t \in Callers : SessionLockAcquire(t)
    \/ \E t \in Callers : OpBody(t)
    \/ \E t \in Callers : SessionLockRelease(t)

\* a thread that is inside a call keeps running, and a thread that waits for
\* a lock that is free gets it or sees another thread get it
ThreadsRun ==
    \A t \in Callers :
        /\ WF_vars(SessionLockAcquire(t))
        /\ WF_vars(OpBody(t))
        /\ WF_vars(SessionLockRelease(t))

SpecOps == InitLock /\ [][NextOps]_vars /\ ThreadsRun

----------------------------------------------------------------------------
(* add_event line by line, as in SpecLock, while the clock goes on: the    *)
(* timestamp of the TrainingEvent is read when the event is constructed    *)
(* and _last_activity is read from the clock again after the append, so    *)
(* time can pass between the two readings and between any two lines.       *)

NextClock ==
    \/ Tick /\ UNCHANGED others
    \/ \E t \in Callers : AddEventCall(t)
    \/ \E t \in Callers : SessionLockAcquire(t)
    \/ \E t \in Callers : AddEventLookup(t)
    \/ \E t \in Callers : AddEventAppend(t)
    \/ \E t \in Callers : AddEventTouch(t)
    \/ \E t \in Callers : AddEventStatus(t)
    \/ \E t \in Callers : AddEventStarted(t)
    \/ \E t \in Callers : SessionLockRelease(t)

SpecClock == InitLock /\ [][NextClock]_vars

----------------------------------------------------------------------------
(* Properties *)

\* the step of the registry was a call of op on sid (every action writes ret)
Called(op, sid) == ret'.op = op /\ ret'.sid = sid

\* the dictionaries get_events is expected to return for a history of calls
AsDicts(calls) ==
    [i \in 1..Len(calls) |->
        [step |-> calls[i].step, loss |-> calls[i].loss,
         epoch |-> calls[i].epoch, timestamp |-> [iso |-> calls[i].at]]]

\* the calls of a history whose step is greater than k
StepAbove(calls, k) == SelectSeq(calls, LAMBDA c : c.step > k)

\* values of since_step the properties range over (0 included)
SinceRange == {-1, 0, 1, 2}

\* C1: get_events(session_id, since_step=None) returns exactly the events of
\* the accepted add_event calls of the session, one per call, in the order
\* the calls were applied, whatever their steps.
C1_EventsInCallOrder ==
    /\ \A sid \in DOMAIN sessions :
           get_events(sessions, sid, None) = AsDicts(accepted[sid])
    /\ (ret.op = "get_events" /\ ret.since_step = None
            /\ ret.sid \in DOMAIN sessions)
           => ret.value = AsDicts(accepted[ret.sid])

\* C1 witness: get_events returned two events whose steps decrease
C1_Witness ==
    /\ ret.op = "get_events"
    /\ ret.since_step = None
    /\ Len(ret.value) = 2
    /\ ret.value[1].step > ret.value[2].step

\* C2: get_events(session_id, since_step=k) returns exactly the stored events
\* with step > k, in arrival order, for every integer k, 0 included; it is
\* the empty list when no event qualifies.
C2_EventsSinceStep ==
    /\ \A sid \in DOMAIN sessions : \A k \in SinceRange :
           get_events(sessions, sid, Some(k)) = AsDicts(StepAbove(accepted[sid], k))
    /\ (ret.op = "get_events" /\ ret.since_step # None
            /\ ret.sid \in DOMAIN sessions)
           => ret.value = AsDicts(StepAbove(accepted[ret.sid], ret.since_step[1]))

\* C2 witness: since_step=0 dropped a stored event of step 0 and kept one
C2_Witness ==
    /\ ret.op = "get_events"
    /\ ret.since_step = Some(0)
    /\ ret.sid \in DOMAIN sessions
    /\ Len(sessions[ret.sid].events) = 2
    /\ sessions[ret.sid].events[1].step = 0
    /\ Len(ret.value) = 1

\* C3: the first add_event on a pending session makes it running and sets
\* started_at to the timestamp of that event; an add_event on a session that
\* already holds an event leaves started_at as it is.
C3_FirstEventStarts ==
    [][\A sid \in DOMAIN sessions :
          (Called("add_event", sid) /\ ret'.value) =>
              /\ sessions[sid].status = PENDING =>
                     /\ sessions'[sid].status = RUNNING
                     /\ sessions'[sid].started_at =
                            Some(sessions'[sid].events[Len(sessions'[sid].events)].timestamp)
              /\ sessions[sid].events # <<>> =>
                     sessions'[sid].started_at = sessions[sid].started_at]_vars

\* C3 witness: a second event arrived later than the first, started_at is
\* still the timestamp of the first
C3_Witness ==
    /\ ret.op = "add_event"
    /\ ret.sid \in DOMAIN sessions
    /\ Len(sessions[ret.sid].events) = 2
    /\ sessions[ret.sid].events[2].timestamp > sessions[ret.sid].events[1].timestamp
    /\ sessions[ret.sid].started_at = Some(sessions[ret.sid].events[1].timestamp)
    /\ sessions[ret.sid].status = RUNNING

\* the status changes the specification allows
LegalChange == {<<PENDING, RUNNING>>, <<RUNNING, COMPLETED>>, <<RUNNING, FAILED>>}

\* C4: every status change made by add_event, complete or fail is one of
\* pending->running, running->completed, running->failed.
C4_OnlyLegalChanges ==
    [][\A sid \in DOMAIN sessions :
          (ret'.op \in {"add_event", "complete_session", "fail_session"}
               /\ ret'.sid = sid
               /\ sessions'[sid].status # sessions[sid].status)
              => <<sessions[sid].status, sessions'[sid].status>> \in LegalChange]_vars

\* C5: once a session is completed or failed, no add_event, complete or fail
\* changes its status.
C5_TerminalAbsorbing ==
    [][\A sid \in DOMAIN sessions :
          (ret'.op \in {"add_event", "complete_session", "fail_session"}
               /\ ret'.sid = sid
               /\ sessions[sid].status \in {COMPLETED, FAILED})
              => sessions'[sid].status = sessions[sid].status]_vars

\* C6: fail(session_id, msg) leaves the session failed with error_message
\* msg, and any add_event on a failed session leaves it failed with the same
\* error_message.
C6_EventsKeepFailed ==
    [][\A sid \in DOMAIN sessions :
          /\ (Called("fail_session", sid) /\ ret'.value) =>
                 /\ sessions'[sid].status = FAILED
                 /\ sessions'[sid].error_message = Some(ret'.error)
          /\ (Called("add_event", sid) /\ sessions[sid].status = FAILED) =>
                 /\ sessions'[sid].status = FAILED
                 /\ sessions'[sid].error_message = sessions[sid].error_message]_vars

\* C6 witness: an event was accepted by a failed session
C6_Witness ==
    /\ ret.op = "add_event"
    /\ ret.value
    /\ ret.sid \in DOMAIN sessions
    /\ sessions[ret.sid].status = FAILED
    /\ sessions[ret.sid].error_message = Some("OOM error")
    /\ sessions[ret.sid].events # <<>>

\* C7: add_event, complete and fail on an id that is not registered return
\* False and leave the registry as it is; the webhook then returns its normal
\* body with received = False.
C7_UnknownIdIgnored ==
    [][(ret'.op \in {"add_event", "complete_session", "fail_session"}
            /\ ret'.sid \notin DOMAIN sessions)
          => /\ ret'.value = FALSE
             /\ sessions' = sessions
             /\ ret'.op = "add_event" =>
                    /\ ret'.response.status_code = 200
                    /\ ret'.response.received = FALSE]_vars

\* C7 witness: a webhook for an unregistered id, beside a registered session
C7_Witness ==
    /\ ret.op = "add_event"
    /\ ret.sid \notin DOMAIN sessions
    /\ ret.value = FALSE
    /\ DOMAIN sessions # {}

\* C8: add_event on an expired session, swept or not, returns False and
\* leaves the registry as it is.
C8_ExpiredEventDiscarded ==
    [][\A sid \in TwoIds :
          (Called("add_event", sid)
               /\ (sid \in DOMAIN sessions =>
                       now > sessions[sid].last_activity + TTL))
              => /\ ret'.value = FALSE
                 /\ sessions' = sessions]_vars

\* the sessions a sweep at the current time has to keep
NotExpired == {sid \in DOMAIN sessions : ~(now > sessions[sid].last_activity + TTL)}

\* C9: the sweep run by list_sessions and by start_session removes exactly the
\* sessions with now > last_activity + TTL; list_sessions returns the
\* snapshots of the others, and get_status of a swept id is None.
C9_SweepRemovesExpired ==
    [][/\ ret'.op = "list_sessions" =>
              /\ DOMAIN sessions' = NotExpired
              /\ \A sid \in NotExpired : sessions'[sid] = sessions[sid]
              /\ ret'.value = {session_to_dict(sessions[sid]) : sid \in NotExpired}
              /\ \A sid \in DOMAIN sessions \ NotExpired :
                     get_status(sessions', sid) = None
       /\ ret'.op = "start_session" =>
              /\ DOMAIN sessions' = NotExpired \cup {ret'.sid}
              /\ \A sid \in NotExpired \ {ret'.sid} : sessions'[sid] = sessions[sid]]_vars

\* C9 witness: list_sessions removed one session and kept one whose
\* last_activity is exactly TTL old
C9_Witness ==
    /\ ret.op = "list_sessions"
    /\ ret.cleaned = 1
    /\ \E sid \in DOMAIN sessions : now = sessions[sid].last_activity + TTL

\* C10: a registered id leaves the registry only in a sweep (start_session,
\* list_sessions, active_count) that finds it expired; the other calls keep
\* the set of ids, and get_status answers for an expired session not yet
\* swept.
C10_RemovedOnlyBySweep ==
    [][/\ \A sid \in DOMAIN sessions :
              sid \notin DOMAIN sessions' =>
                  /\ ret'.op \in {"start_session", "list_sessions", "active_count"}
                  /\ now > sessions[sid].last_activity + TTL
       /\ ret'.op \in {"add_event", "complete_session", "fail_session",
                       "get_status", "get_events", "get_latest"} =>
              DOMAIN sessions' = DOMAIN sessions
       /\ (ret'.op = "get_status" /\ ret'.sid \in DOMAIN sessions) =>
              ret'.value # None]_vars

\* C10 witness: get_status answered for a session that is already expired
C10_Witness ==
    /\ ret.op = "get_status"
    /\ ret.sid \in DOMAIN sessions
    /\ now > sessions[ret.sid].last_activity + TTL
    /\ ret.value # None

\* C11: start_session leaves a fresh pending session under the id, whether
\* or not the id was registered before: no events, no started_at,
\* completed_at or error_message, current_step 0 and progress 0 in its
\* snapshot; the call returns that session and has no failure outcome.
C11_StartGivesFreshSession ==
    [][\A sid \in SessionIds :
          Called("start_session", sid) =>
              /\ sid \in DOMAIN sessions'
              /\ ret'.value = sessions'[sid]
              /\ sessions'[sid].status = PENDING
              /\ sessions'[sid].events = <<>>
              /\ sessions'[sid].started_at = None
              /\ sessions'[sid].completed_at = None
              /\ sessions'[sid].error_message = None
              /\ sessions'[sid].created_at = now
              /\ LET snapshot == session_to_dict(sessions'[sid])
                 IN  /\ snapshot.status = PENDING
                     /\ snapshot.current_step = 0
                     /\ snapshot.progress_percent = 0
                     /\ snapshot.event_count = 0
                     /\ snapshot.started_at = None
                     /\ snapshot.completed_at = None
                     /\ snapshot.error_message = None]_vars

\* C11 witness: start_session replaced a live session that held events
C11_Witness ==
    /\ ret.op = "start_session"
    /\ ret.replaced # None
    /\ ret.replaced[1].event_count > 0
    /\ ret.replaced[1].status = FAILED
    /\ sessions[ret.sid].events = <<>>

\* C14: with total_steps > 0 the progress is current_step / total_steps * 100
\* capped at 100, so it never exceeds 100 even when current_step is above
\* total_steps; with total_steps = 0 it is 0; an add_event whose step is not
\* below the current step never lowers it.
C14_ProgressClamped ==
    /\ [](\A sid \in DOMAIN sessions :
              LET s == sessions[sid]
                  p == progress_percent(s)
              IN  /\ FracLeq(p, Frac(100, 1))
                  /\ s.total_steps = 0 => FracEq(p, Frac(0, 1))
                  /\ s.total_steps > 0 =>
                         IF current_step(s) >= s.total_steps
                         THEN FracEq(p, Frac(100, 1))
                         ELSE FracEq(p, Frac(current_step(s) * 100, s.total_steps))
                  /\ session_to_dict(s).progress_percent <= 100 * 100)
    /\ [][\A sid \in DOMAIN sessions :
              (/\ Called("add_event", sid)
               /\ ret'.value
               /\ current_step(sessions'[sid]) >= current_step(sessions[sid]))
              => FracLeq(progress_percent(sessions[sid]),
                         progress_percent(sessions'[sid]))]_vars

\* C14 witness: an event whose step is above total_steps was added and the
\* progress is 100
C14_Witness ==
    /\ ret.op = "add_event"
    /\ ret.value
    /\ sessions[ret.sid].total_steps > 0
    /\ current_step(sessions[ret.sid]) > sessions[ret.sid].total_steps
    /\ FracEq(progress_percent(sessions[ret.sid]), Frac(100, 1))

\* C15: get_latest returns the event appended last, whatever its step, and
\* nothing for a session without events or an unregistered id; the snapshot's
\* current_step, current_epoch and latest_loss are that event's step, epoch
\* and loss, or 0, 0 and nothing when the session has no events.
C15_LatestIsLastAppended ==
    /\ ret.op = "get_latest" =>
           IF ret.sid \in DOMAIN sessions /\ accepted[ret.sid] # <<>>
           THEN LET last == accepted[ret.sid][Len(accepted[ret.sid])]
                IN  ret.value = Some([step |-> last.step, loss |-> last.loss,
                                      epoch |-> last.epoch,
                                      timestamp |-> [iso |-> last.at]])
           ELSE ret.value = None
    /\ (ret.op = "get_status" /\ ret.sid \in DOMAIN sessions) =>
           /\ ret.value # None
           /\ IF accepted[ret.sid] # <<>>
              THEN LET last == accepted[ret.sid][Len(accepted[ret.sid])]
                   IN  /\ ret.value[1].current_step = last.step
                       /\ ret.value[1].current_epoch = last.epoch
                       /\ ret.value[1].latest_loss = Some(last.loss)
              ELSE /\ ret.value[1].current_step = 0
                   /\ ret.value[1].current_epoch = 0
                   /\ ret.value[1].latest_loss = None

\* C15 witness: get_latest answered with an event whose step is below that of
\* an earlier event
C15_Witness ==
    /\ ret.op = "get_latest"
    /\ ret.value # None
    /\ \E i \in 1..Len(sessions[ret.sid].events) :
           sessions[ret.sid].events[i].step > ret.value[1].step

\* the index of the first event of the window estimate_eta samples
WindowStart(events) ==
    IF Len(events) > ETA_WINDOW THEN Len(events) - ETA_WINDOW + 1 ELSE 1

C17_EtaNonNegative ==
    (/\ ret.op = "get_status"
     /\ ret.sid \in DOMAIN sessions
     /\ ret.value[1].eta_seconds # None)
    => LET s == sessions[ret.sid]
           n == Len(s.events)
           w == WindowStart(s.events)
           left == s.total_steps - current_step(s)
           eta == ret.value[1].eta_seconds[1]
       IN  /\ eta.num >= 0
           /\ FracEq(eta, Frac((IF left > 0 THEN left ELSE 0)
                                   * (s.events[n].timestamp - s.events[w].timestamp),
                               s.events[n].step - s.events[w].step))

Entered(sid) == SelectSeq(history, LAMBDA c : c.sid = sid)

\* the session sid as it is once exactly the calls cs have run to their end
AfterCalls(sid, cs) ==
    replay(TrainingSession(sid, sessions[sid].total_steps,
                           sessions[sid].created_at), cs)

\* C12: get_status returns the session as it is after all the add_event calls
\* that entered the lock before it, each applied as a whole: with an
\* add_event running at the same time it shows the state before or after that
\* call, never a part of it, and it shows every event whose add_event has
\* returned.
C12_StatusSeesWholeCalls ==
    [][\A t \in Threads :
          (/\ threads[t].pc = "body"
           /\ threads[t].op = "get_status"
           /\ threads'[t].pc = "release")
          => threads'[t].result =
                 Some(session_to_dict(
                          AfterCalls(threads[t].sid, Entered(threads[t].sid))))]_vars

\* C12 witness: get_status returned a snapshot with an event while another
\* thread is inside an add_event call, waiting for the lock
C12_Witness ==
    /\ ret.op = "get_status"
    /\ ret.value[1].event_count = 1
    /\ ret.value[1].status = RUNNING
    /\ \E u \in Threads :
           /\ threads[u].pc = "acquire"
           /\ threads[u].op = "add_event"
           /\ threads[u].sid = ret.sid

\* C13: whenever no thread is inside the lock, the events of a session are
\* those of the add_event calls that entered the lock, one per call and in
\* the order in which they entered it; once all n calls have returned the
\* session holds exactly n events.
C13_EventsInLockOrder ==
    locks.session = None =>
        \A sid \in DOMAIN sessions :
            /\ sessions[sid].events =
                   [i \in 1..Len(Entered(sid)) |->
                       TrainingEvent(Entered(sid)[i].step, Entered(sid)[i].loss,
                                     Entered(sid)[i].epoch, Entered(sid)[i].at)]
            /\ (\A t \in Threads : threads[t].pc = "idle") =>
                   Len(sessions[sid].events) + Len(SelectSeq(history,
                                                   LAMBDA c : c.sid # sid))
                       = added

\* C13 witness: two calls have returned, and the call made second entered the
\* lock first
C13_Witness ==
    /\ locks.session = None
    /\ \A t \in Threads : threads[t].pc = "idle"
    /\ \E sid \in DOMAIN sessions :
           /\ Len(sessions[sid].events) = 2
           /\ sessions[sid].events[1].loss > sessions[sid].events[2].loss

\* C19: GET /{session_id}/stream for an id that is not registered answers
\* 404 at once: no generator is started, so nothing is emitted and no poll
\* iteration ever runs for that request.
C19_SubscribeUnknownFails ==
    [][/\ (/\ ret'.op = "stream"
           /\ feed.pc = "none"
           /\ ret'.sid \notin DOMAIN sessions)
          => /\ ret'.status_code = 404
             /\ feed'.pc = "not_found"
             /\ feed'.sent = <<>>
       /\ feed.pc = "not_found" => feed' = feed]_vars

\* C19 witness: the request was refused, and the id has been registered since
C19_Witness ==
    /\ feed.pc = "not_found"
    /\ feed.sent = <<>>
    /\ feed.sid \in DOMAIN sessions
    /\ sessions[feed.sid].events # <<>>

Terminal(n) == n.event \in {"complete", "error"}

\* C21: the iteration whose status snapshot is completed or failed emits the
\* complete notification with that snapshot and ends the stream, also when
\* no iteration of the subscription has found a new event.
C21_TerminalStatusEndsStream ==
    [][(/\ feed.pc = "check"
        /\ feed' # feed
        /\ feed.status[1].status \in {COMPLETED, FAILED})
       => /\ feed'.pc = "yield_complete"
          /\ feed'.sent = Append(feed.sent, CompleteNotification(feed.status[1]))]_vars

\* C22: a stream holds at most one terminal notification, it is the last
\* one, and once it is emitted the generator is at that yield or has ended:
\* it is never again at get_status, at get_events or in the sleep.
C22_OneTerminalNotification ==
    \A i \in 1..Len(feed.sent) :
        Terminal(feed.sent[i]) =>
            /\ i = Len(feed.sent)
            /\ feed.pc \in {"yield_complete", "yield_error", "done", "cancelled"}

\* C22 witness: a stream ended with the complete notification after a status
\* update
C22_Witness ==
    /\ feed.pc = "done"
    /\ Len(feed.sent) = 2
    /\ feed.sent[1].event = "message"
    /\ feed.sent[2].event = "complete"

\* C23: a stream that has ended without the client going away has emitted
\* its terminal notification (it cannot emit one later).
C23_EndsWithTerminal ==
    feed.pc \in {"done", "crashed"} =>
        /\ feed.sent # <<>>
        /\ Terminal(feed.sent[Len(feed.sent)])

\* C24: when the client disconnects the generator ends there and then: it
\* emits nothing, no lock of the tracker is held, and an ended generator
\* takes no further step.
C24_CancelEndsAtOnce ==
    [][/\ ret'.op = "disconnect" =>
              /\ feed'.pc = "cancelled"
              /\ feed'.sent = feed.sent
              /\ locks'.session = None
       /\ feed.pc = "cancelled" => feed' = feed]_vars

\* C24 witness: the client went away before any terminal notification, and
\* the session has been completed since
C24_Witness ==
    /\ feed.pc = "cancelled"
    /\ ret.op = "complete_session"
    /\ ret.value
    /\ feed.sid \in DOMAIN sessions
    /\ sessions[feed.sid].status = COMPLETED
    /\ \A i \in 1..Len(feed.sent) : ~Terminal(feed.sent[i])

\* the step leaves the session object registered under sid in place: the id
\* is registered before and after, and the step is not a start_session of it
SameSession(sid) ==
    /\ sid \in DOMAIN sessions
    /\ sid \in DOMAIN sessions'
    /\ ~Called("start_session", sid)

\* C25: a registered session has started_at set exactly when it holds at
\* least one event, whatever the order of add_event, complete and fail.
C25_StartedIffEvents ==
    \A sid \in DOMAIN sessions :
        sessions[sid].started_at # None <=> sessions[sid].events # <<>>

\* C26: completed_at of a session, once set, is never changed, and it is
\* changed only by complete_session and fail_session.
C26_CompletedAtOnce ==
    [][\A sid \in SessionIds :
          SameSession(sid) =>
              /\ sessions[sid].completed_at # None =>
                     sessions'[sid].completed_at = sessions[sid].completed_at
              /\ sessions'[sid].completed_at # sessions[sid].completed_at =>
                     ret'.op \in {"complete_session", "fail_session"}]_vars

\* C27: a registered session has an error message exactly when its status
\* is failed.
C27_ErrorIffFailed ==
    \A sid \in DOMAIN sessions :
        (/\ sessions[sid].error_message # None
         /\ sessions[sid].error_message # Some(""))
        <=> sessions[sid].status = FAILED

\* C28: while a session object stays registered, every call leaves the events
\* it holds as a prefix of its log; the log grows only in an add_event call
\* that returns True, and then by exactly one event.
C28_LogAppendOnly ==
    [][\A sid \in SessionIds :
          SameSession(sid) =>
              LET old == sessions[sid].events
                  new == sessions'[sid].events
              IN  /\ Len(new) >= Len(old)
                  /\ SubSeq(new, 1, Len(old)) = old
                  /\ (Called("add_event", sid) /\ ret'.value)
                         <=> Len(new) = Len(old) + 1
                  /\ Len(new) # Len(old) => Len(new) = Len(old) + 1]_vars

\* C28 witness: complete_session succeeded on a session that holds two events
C28_Witness ==
    /\ ret.op = "complete_session"
    /\ ret.value
    /\ Len(sessions[ret.sid].events) = 2

\* what C29 asks of a snapshot d of the session s
SnapshotWhole(d, s) ==
    /\ d.status = PENDING =>
           /\ d.event_count = 0
           /\ s.events = <<>>
           /\ d.started_at = None
           /\ d.completed_at = None
    /\ d.status = RUNNING =>
           /\ d.event_count >= 1
           /\ d.started_at = Some(isoformat(s.events[1].timestamp))
           /\ d.completed_at = None
    /\ d.completed_at # None <=> d.status \in {COMPLETED, FAILED}

\* C29: every snapshot returned by get_status or list_sessions is whole: a
\* pending one has no events, no started_at and no completed_at; a running
\* one has an event, the first event's timestamp as started_at and no
\* completed_at; completed_at is set exactly for completed and failed.
C29_SnapshotsWhole ==
    /\ (ret.op = "get_status" /\ ret.value # None) =>
           SnapshotWhole(ret.value[1], sessions[ret.sid])
    /\ ret.op = "list_sessions" =>
           \A d \in ret.value : SnapshotWhole(d, sessions[d.session_id])

\* C29 witness: list_sessions returned the snapshot of a session that was
\* completed after two events
C29_Witness ==
    /\ ret.op = "list_sessions"
    /\ \E d \in ret.value :
           /\ d.status = COMPLETED
           /\ d.event_count = 2
           /\ d.started_at # None

\* C30: created_at <= started_at when started_at is set, started_at <=
\* completed_at when both are set, and neither created_at nor a set
\* started_at of a session object ever changes.
C30_TimestampsOrdered ==
    /\ [](\A sid \in DOMAIN sessions :
              LET s == sessions[sid]
              IN  /\ s.started_at # None => s.created_at <= s.started_at[1]
                  /\ (s.started_at # None /\ s.completed_at # None) =>
                         s.started_at[1] <= s.completed_at[1])
    /\ [][\A sid \in SessionIds :
              SameSession(sid) =>
                  /\ sessions'[sid].created_at = sessions[sid].created_at
                  /\ sessions[sid].started_at # None =>
                         sessions'[sid].started_at = sessions[sid].started_at]_vars

\* C30 witness: a session created, started and completed at three different
\* times
C30_Witness ==
    /\ ret.op = "complete_session"
    /\ ret.value
    /\ LET s == sessions[ret.sid]
       IN  /\ s.started_at # None
           /\ s.created_at < s.started_at[1]
           /\ s.started_at[1] < s.completed_at[1]

\* the operations that change a session, and the operations that read
MutatingOps == {"add_event", "complete_session", "fail_session"}
ReadingOps == {"get_status", "get_events", "get_latest", "list_sessions"}

\* C31: every add_event, complete_session and fail_session that succeeds
\* leaves last_activity at the current time; while a session object stays
\* registered its last_activity never decreases and changes only in such a
\* call, so no read changes it; and a session leaves the registry only when
\* more than TTL has passed since its last_activity.
C31_ActivityIsLastMutation ==
    [][\A sid \in SessionIds :
          /\ ((\E op \in MutatingOps : Called(op, sid)) /\ ret'.value) =>
                 sessions'[sid].last_activity = now
          /\ SameSession(sid) =>
                 /\ sessions'[sid].last_activity >= sessions[sid].last_activity
                 /\ sessions'[sid].last_activity # sessions[sid].last_activity =>
                        /\ ret'.op \in MutatingOps
                        /\ ret'.sid = sid
                        /\ ret'.value
                 /\ ret'.op \in ReadingOps =>
                        sessions'[sid].last_activity = sessions[sid].last_activity
          /\ (sid \in DOMAIN sessions /\ sid \notin DOMAIN sessions') =>
                 now > sessions[sid].last_activity + TTL]_vars

\* C31 witness: a sweep ran more than TTL after the session was created and
\* kept it, because a later mutation had moved its last_activity
C31_Witness ==
    /\ ret.op = "active_count"
    /\ ret.cleaned = 0
    /\ \E sid \in DOMAIN sessions :
           /\ now > sessions[sid].created_at + TTL
           /\ sessions[sid].last_activity > sessions[sid].created_at
           /\ sessions[sid].status = FAILED

\* the step is an iteration's get_events read that found new events: the
\* cursor is advanced and the snapshot read before is sent
Emits == feed.pc = "events" /\ feed'.pc = "yield_data"

\* C38: whenever an iteration sends its snapshot and advances the cursor,
\* the snapshot holds every event that the iteration's get_events read
\* returned: its current_step is the new cursor and its event_count is the
\* length of the log that get_events read.
C38_SnapshotCoversNewEvents ==
    [][Emits =>
          /\ feed.status[1].current_step = feed'.last_step
          /\ feed.sid \in DOMAIN sessions
          /\ feed.status[1].event_count = Len(sessions[feed.sid].events)]_vars

\* C32: the cursor of a subscription starts at 0 and never decreases,
\* whatever the order of the steps in the log; it changes only in an
\* iteration's get_events read, and then to the step of the last event that
\* get_events(since_step = the old cursor) returned.
C32_CursorFollowsLastReturned ==
    [][/\ (feed.pc = "none" /\ feed'.pc = "poll") => feed'.last_step = 0
       /\ feed'.last_step >= feed.last_step
       /\ feed'.last_step # feed.last_step =>
              /\ feed.pc = "events"
              /\ LET new == get_events(sessions, feed.sid, Some(feed.last_step))
                 IN  /\ new # <<>>
                     /\ feed'.last_step = new[Len(new)].step]_vars

\* C32 witness: the log holds the steps 3, 1 in this order and the cursor
\* went from 0 to 1 and then to 3
C32_Witness ==
    /\ feed.last_step = 3
    /\ Len(feed.sent) = 2
    /\ feed.sent[1].data.json.current_step = 1
    /\ \E sid \in DOMAIN sessions :
           /\ Len(sessions[sid].events) = 2
           /\ sessions[sid].events[1].step = 3
           /\ sessions[sid].events[2].step = 1

\* the subscription is open: the generator is running or suspended
OpenPcs == {"poll", "events", "yield_data", "check", "sleep"}

\* a notification sent so far carries a snapshot that holds the first n
\* events of the log
Covered(n) ==
    \E i \in 1..Len(feed.sent) :
        /\ feed.sent[i].event \in {"message", "complete"}
        /\ feed.sent[i].data.json.event_count >= n

\* C39: every event appended while the subscription is open is held by the
\* snapshot of a notification sent afterwards, unless the client leaves,
\* whatever the event's step.
C39_NoEventMissed ==
    \A n \in 1..(MaxStartLog + MaxAdded) :
        (/\ ret.op = "add_event"
         /\ ret.value
         /\ feed.pc \in OpenPcs
         /\ Len(sessions[ret.sid].events) = n)
        ~> (Covered(n) \/ feed.pc = "cancelled")

\* C40: an iteration after the first sends a snapshot of a session that is
\* not finished only if the log is longer than the previous iteration's
\* snapshot found it.
C40_UpdateOnlyAfterGrowth ==
    [][(/\ Emits
        /\ feed.seen # None
        /\ feed.status[1].status \notin {COMPLETED, FAILED}) =>
           Len(sessions[feed.sid].events) > feed.seen[1]]_vars

\* C33: a step of a subscription (the request, a read, a yield, the sleep,
\* the cancellation) leaves the registry as it is: the registered ids and
\* every session's status, events, timestamps and last_activity, so it
\* changes the time of no session's expiry; and a step of one subscription
\* leaves the cursor and the notifications of the other as they are.
C33_FeedOnlyReads ==
    [][/\ (feed' # feed \/ threads' # threads) =>
              /\ sessions' = sessions
              /\ now' = now
              /\ \A sid \in DOMAIN sessions, t \in 0..(MaxTime + TTL + 1) :
                     is_expired(sessions'[sid], t) = is_expired(sessions[sid], t)
       /\ feed' # feed => threads' = threads
       /\ threads' # threads => feed' = feed]_vars

\* C33 witness: two subscriptions to the same session stand at different
\* cursors and have sent different numbers of notifications
C33_Witness ==
    /\ Watching
    /\ threads[Other].sid = feed.sid
    /\ feed.last_step = 3
    /\ Len(feed.sent) = 2
    /\ threads[Other].last_step = 1
    /\ Len(threads[Other].sent) = 1

\* the step is neither the caller keeping a result nor the caller changing
\* what it holds
NotTheCaller == ret'.op \notin {"keep", "tamper"}

\* C34: what get_status, get_events, get_latest and list_sessions returned
\* is not changed by any later add_event, complete_session, fail_session,
\* start_session or sweep, and a caller that changes a returned snapshot
\* leaves the registry as it is.
C34_ResultsAreCopies ==
    [][\A c \in DOMAIN threads :
          threads[c].op \in HandedOps \ {"start_session"} =>
              /\ NotTheCaller => threads'[c] = threads[c]
              /\ ret'.op = "tamper" => sessions' = sessions]_vars

\* C34 witness: the caller holds a get_status snapshot that it has changed,
\* of a session that has since received an event
C34_Witness ==
    /\ Caller \in DOMAIN threads
    /\ threads[Caller].op = "get_status"
    /\ threads[Caller].value # None
    /\ threads[Caller].value[1].total_steps = 0
    /\ threads[Caller].value[1].event_count = 0
    /\ threads[Caller].sid \in DOMAIN sessions
    /\ sessions[threads[Caller].sid].status = COMPLETED
    /\ sessions[threads[Caller].sid].total_steps = 2
    /\ Len(sessions[threads[Caller].sid].events) = 1

\* C35: no call, start_session included, hands its caller the stored
\* session: what a caller holds is changed by no later step of the
\* registry, and the registry changes in its own calls only.
C35_NoStoredSessionHandedOut ==
    [][/\ \A c \in DOMAIN threads : NotTheCaller => threads'[c] = threads[c]
       /\ ret'.op = "tamper" => sessions' = sessions]_vars

\* the threads inside `with self._session_lock:`
Inside == {t \in DOMAIN threads : threads[t].pc \in {"body", "release"}}

\* C36: a call takes the session lock once, on entry, when no thread holds
\* it, and gives it back when it returns, on every path through the body
\* (the sweep inside start_session, list_sessions and active_count takes no
\* lock); at most one thread is inside the with block; and every call made
\* by the threads returns.
C36_LockDiscipline ==
    /\ [](/\ Cardinality(Inside) <= 1
          /\ \A t \in Threads : locks.session = Some(t) <=> t \in Inside)
    /\ [][\A t \in Threads :
             /\ threads'[t].pc # threads[t].pc =>
                    <<threads[t].pc, threads'[t].pc>> \in
                        {<<"idle", "acquire">>, <<"acquire", "body">>,
                         <<"body", "release">>, <<"release", "idle">>}
             /\ (locks.session # Some(t) /\ locks'.session = Some(t)) =>
                    /\ locks.session = None
                    /\ threads[t].pc = "acquire"
             /\ (locks.session = Some(t) /\ locks'.session # Some(t)) =>
                    /\ locks'.session = None
                    /\ threads'[t].pc = "idle"
                    /\ ret'.op = threads[t].op]_vars
    /\ \A t \in Threads : (threads[t].pc # "idle") ~> (threads[t].pc = "idle")

\* C36 witness: a thread has run the body of start_session, sweep included,
\* and still holds the lock while another thread waits to enter add_event
C36_Witness ==
    \E t \in Threads, u \in Threads :
        /\ threads[t].pc = "release"
        /\ threads[t].op = "start_session"
        /\ locks.session = Some(t)
        /\ threads[u].pc = "acquire"
        /\ threads[u].op = "add_event"

\* C37: the clock never going back, the timestamps of a session's events
\* never decrease along the log, and outside add_event's with block
\* last_activity is not earlier than the last event's timestamp; so the
\* time between the first and the last event of the ETA window is never
\* negative.
C37_TimestampsFollowArrival ==
    \A sid \in DOMAIN sessions :
        LET s == sessions[sid]
            r == recent_events(s.events)
        IN  /\ \A i \in 1..Len(s.events), j \in 1..Len(s.events) :
                   i <= j => s.events[i].timestamp <= s.events[j].timestamp
            /\ (locks.session = None /\ s.events # <<>>) =>
                   s.last_activity >= s.events[Len(s.events)].timestamp
            /\ r # <<>> => r[Len(r)].timestamp - r[1].timestamp >= 0

\* C37 witness: two events constructed at different times, the second one
\* appended before the clock reading that set last_activity
C37_Witness ==
    /\ locks.session = None
    /\ \E sid \in DOMAIN sessions :
           /\ Len(sessions[sid].events) = 2
           /\ sessions[sid].events[1].timestamp < sessions[sid].events[2].timestamp
           /\ sessions[sid].events[2].timestamp < sessions[sid].last_activity

====
